---- MODULE Spec2Model ----
(***************************************************************************)
(* Keyboard capture and emulation of plover/oslayer/winkeyboardcontrol.py. *)
(*                                                                         *)
(* KeyboardCapture: the hook handler on_key_event, its modifier flags and  *)
(* the suppression flag; the capture thread from start() through run() to  *)
(* its end, and cancel() called from another thread, step by step.         *)
(* KeyboardEmulation: send_backspaces, send_string                         *)
(* and send_key_combination down to the INPUT structures handed to         *)
(* SendInput.  The environment is the keyboard (which keys are physically  *)
(* down), the OS, which queues injected inputs for the hook or refuses     *)
(* them, and                                                               *)
(* the application, which makes the emulation calls of its script.         *)
(*                                                                         *)
(* A Python string is a sequence of one-character strings; ''.join is      *)
(* string concatenation.  The key tables are cut down to the names the     *)
(* alphabets below can spell, plus the names the code itself uses.         *)
(***************************************************************************)
EXTENDS Integers, Sequences, FiniteSets, TLC

VARIABLES
    shift, ctrl, alt,        \* KeyboardCapture.shift / .ctrl / .alt
    _suppress_keyboard,      \* KeyboardCapture._suppress_keyboard
    hooked,                  \* the keyboard hook is installed (HookKeyboard)
    thread,                  \* the capture thread: where it is in its life
    quit,                    \* OS: WM_QUIT waits in the capture thread's queue
    canceller,               \* the thread calling cancel: where it is in it
    cancels,                 \* history: how each cancel call ended
    down,                    \* keyboard: the keys physically held down
    pending,                 \* OS: injected inputs not yet seen by the hook
    blocked,                 \* OS: SendInput is refused (it injects nothing)
    events,                  \* history: raw events handed to on_key_event
    callbacks,               \* history: key_down / key_up calls made
    KEYNAME_TO_KEYCODE,      \* the module's defaultdict(list)
    script,                  \* application: emulation calls still to make
    call,                    \* the emulation call made last
    ops,                     \* _key_down/_key_up/_key_press/_key_unicode calls of it
    sent,                    \* INPUTs it passed to SendInput, with the result
    raised                   \* it ended by raising an exception

vars == <<shift, ctrl, alt, _suppress_keyboard, hooked, thread, quit, canceller,
          cancels, down, pending, blocked, events, callbacks, KEYNAME_TO_KEYCODE,
          script, call, ops, sent, raised>>

sessionVars == <<thread, quit, canceller, cancels>>

captureVars == <<shift, ctrl, alt, _suppress_keyboard, hooked, sessionVars, down,
                 events, callbacks>>

-----------------------------------------------------------------------------
(* Bounds.                                                                 *)

\* Longest combination string of the parser specification.
MaxComboLen == 6
\* Most raw events handed to the hook in one behaviour.
MaxEvents == 4
\* Most pieces (key names and delimiters) of a combination string of the
\* grouping specification.
MaxPieces == 7
\* Most raw events of a behaviour in which the session is cancelled.
MaxSessionEvents == 2
\* Most cancel calls in one behaviour.
MaxCancels == 3
\* Most emulation calls in one application script.
MaxCalls == 2
\* Longest string argument of the calls of such a script.
MaxArgLen == 1
\* Largest argument of send_backspaces.
MaxBackspaces == 2

-----------------------------------------------------------------------------
(* Constants of the module.                                                *)

KEYEVENTF_KEYUP == 2
KEYEVENTF_UNICODE == 4
INPUT_KEYBOARD == 1
\* WORD = ctypes.c_ushort: 16 bits, no overflow check.
WORD == 65536

None == "None"

\* Scan code -> character; the entries for the scan codes in use.
KEY_TO_ASCII == (8 :> "7") @@ (30 :> "a") @@ (32 :> "d")

\* KEYNAME_TO_KEYCODE as the module loads it.
KeycodeTable ==
    ("A" :> <<161, 65>>) @@ ("E" :> <<161, 69>>) @@
    ("BackSpace" :> <<8>>) @@ ("space" :> <<32>>) @@
    ("parenleft" :> <<161, 57>>) @@ ("parenright" :> <<161, 48>>)

KEYNAME_TO_UNICODE == ("AE" :> 198)

LITERALS == (" " :> "space") @@ ("(" :> "parenleft") @@ (")" :> "parenright")

CONTROL_KEYS == {"Lcontrol", "Rcontrol"}
SHIFT_KEYS == {"Lshift", "Rshift"}
ALT_KEYS == {"Lmenu", "Rmenu"}

\* ord() of the characters in use.
ord == ("A" :> 65) @@ ("E" :> 69) @@ (" " :> 32) @@ ("(" :> 40) @@
       (")" :> 41) @@ ("é" :> 233)

-----------------------------------------------------------------------------
(* Sequences and strings.                                                  *)

Last(s) == s[Len(s)]
Front(s) == SubSeq(s, 1, Len(s) - 1)

RECURSIVE reversed(_)
reversed(s) == IF s = <<>> THEN <<>> ELSE Append(reversed(Tail(s)), Head(s))

RECURSIVE join(_)
join(cs) == IF cs = <<>> THEN "" ELSE Head(cs) \o join(Tail(cs))

RECURSIVE SeqsUpTo(_, _)
SeqsUpTo(S, n) ==
    IF n = 0 THEN {<<>>}
    ELSE LET shorter == SeqsUpTo(S, n - 1)
         IN  shorter \cup {Append(s, c) : s \in shorter, c \in S}

\* s.encode('utf-32-be'): four bytes per code point.
RECURSIVE encode_utf_32_be(_)
encode_utf_32_be(s) ==
    IF s = <<>> THEN <<>>
    ELSE LET cp == ord[Head(s)]
         IN  <<cp \div 16777216, (cp \div 65536) % 256, (cp \div 256) % 256,
               cp % 256>> \o encode_utf_32_be(Tail(s))

\* bytes.decode('utf-32-be') of one four-byte group.
decode_utf_32_be(b) ==
    LET cp == ((b[1] * 256 + b[2]) * 256 + b[3]) * 256 + b[4]
    IN  CHOOSE c \in DOMAIN ord : ord[c] = cp

characters(s) ==
    LET encoded == encode_utf_32_be(s)
    IN  [i \in 1..(Len(encoded) \div 4) |->
            decode_utf_32_be(SubSeq(encoded, (i - 1) * 4 + 1, (i - 1) * 4 + 4))]

-----------------------------------------------------------------------------
(* KeyboardEmulation.  An emulation call threads a record st through its   *)
(* statements: tbl is KEYNAME_TO_KEYCODE, sent the INPUTs passed to        *)
(* SendInput with what it returned, ops the log of the key methods the     *)
(* call invoked, blocked whether the OS refuses injected input,            *)
(* raised whether an exception is on its way to the caller.                *)

NewSt(tbl, refused) ==
    [tbl |-> tbl, ops |-> <<>>, sent |-> <<>>, blocked |-> refused, raised |-> FALSE]

\* defaultdict.__getitem__: a missing key is inserted with list().
Touch(tbl, name) == IF name \in DOMAIN tbl THEN tbl ELSE tbl @@ (name :> <<>>)

\* ctypes.windll.user32.SendInput: the number of events injected.
SendInput(st) == IF st.blocked THEN 0 ELSE 1

\* The callers drop the value _SendInput returns.
_SendInput(st, input) ==
    [st EXCEPT !.sent = Append(@, [input |-> input, result |-> SendInput(st)])]

_Input(structure) == [type |-> INPUT_KEYBOARD, ki |-> structure]

_KeybdInput(code, flags) ==
    IF flags = KEYEVENTF_UNICODE
    THEN [wVk |-> 0, wScan |-> code % WORD, dwFlags |-> flags]
    ELSE [wVk |-> code % WORD, wScan |-> code % WORD, dwFlags |-> flags]

_Keyboard(code, flags) == _Input(_KeybdInput(code, flags))

RECURSIVE SendEach(_, _, _)
SendEach(st, codes, flags) ==
    IF codes = <<>> THEN st
    ELSE SendEach(_SendInput(st, _Keyboard(Head(codes), flags)), Tail(codes), flags)

_key_down(st, keyname) ==
    LET tbl == Touch(st.tbl, keyname)
    IN  SendEach([st EXCEPT !.tbl = tbl], tbl[keyname], 0)

_key_up_table_order(st, keyname) ==
    LET tbl == Touch(st.tbl, keyname)
    IN  SendEach([st EXCEPT !.tbl = tbl], tbl[keyname], KEYEVENTF_KEYUP)

_key_up(st, keyname) ==
    LET tbl == Touch(st.tbl, keyname)
    IN  SendEach([st EXCEPT !.tbl = tbl], reversed(tbl[keyname]), KEYEVENTF_KEYUP)

_key_press(st, keyname) == _key_up(_key_down(st, keyname), keyname)

_key_unicode(st, code) == _SendInput(st, _Keyboard(code, KEYEVENTF_UNICODE))

\* The log of key-method calls: the method, its key name, its code point.
Log(st, op, key, code) ==
    [st EXCEPT !.ops = Append(@, [op |-> op, key |-> key, code |-> code])]

CallDown(st, keyname) == _key_down(Log(st, "_key_down", keyname, 0), keyname)
CallUp(st, keyname) == _key_up(Log(st, "_key_up", keyname, 0), keyname)
CallPress(st, keyname) == _key_press(Log(st, "_key_press", keyname, 0), keyname)
CallUnicode(st, key, code) == _key_unicode(Log(st, "_key_unicode", key, code), code)

RECURSIVE send_backspaces_no_release(_, _)
send_backspaces_no_release(st, number_of_backspaces) ==
    IF number_of_backspaces = 0 THEN st
    ELSE send_backspaces_no_release(CallDown(st, "BackSpace"), number_of_backspaces - 1)

RECURSIVE send_backspaces(_, _)
send_backspaces(st, number_of_backspaces) ==
    IF number_of_backspaces = 0 THEN st
    ELSE send_backspaces(CallPress(st, "BackSpace"), number_of_backspaces - 1)

\* The body of send_string's loop for one character.
SendChar(st, c0) ==
    LET c == IF c0 \in DOMAIN LITERALS THEN LITERALS[c0] ELSE c0
    IN  IF c \in DOMAIN st.tbl THEN CallPress(st, c)
        ELSE CallUnicode(st, c, ord[c])

RECURSIVE SendChars(_, _)
SendChars(st, cs) ==
    IF cs = <<>> THEN st ELSE SendChars(SendChar(st, Head(cs)), Tail(cs))

send_string(st, s) == SendChars(st, characters(s))

stack_pop_first(key_down_stack) ==
    [top |-> Head(key_down_stack), rest |-> Tail(key_down_stack)]

\* key_down_stack.pop(): the last element leaves the list.
stack_pop(key_down_stack) ==
    [top |-> Last(key_down_stack), rest |-> Front(key_down_stack)]

ComboChar_no_placeholder(ls, c) ==
    IF c \in {" ", "(", ")"}
    THEN LET joined == join(ls.current_command)
             isUnicode == joined \in DOMAIN KEYNAME_TO_UNICODE
             st1 == IF isUnicode
                    THEN CallUnicode(ls.st, joined, KEYNAME_TO_UNICODE[joined])
                    ELSE ls.st
             keystring == IF isUnicode THEN "" ELSE joined
         IN  CASE c = " " ->
                    [st |-> IF keystring # "" THEN CallPress(st1, keystring) ELSE st1,
                     key_down_stack |-> ls.key_down_stack,
                     current_command |-> <<>>]
               [] c = "(" ->
                    IF keystring # ""
                    THEN [st |-> CallDown(st1, keystring),
                          key_down_stack |-> Append(ls.key_down_stack, keystring),
                          current_command |-> <<>>]
                    ELSE [st |-> st1,
                          key_down_stack |-> ls.key_down_stack,
                          current_command |-> <<>>]
               [] c = ")" ->
                    LET st2 == IF keystring # "" THEN CallPress(st1, keystring) ELSE st1
                    IN  IF ls.key_down_stack # <<>>
                        THEN [st |-> CallUp(st2, stack_pop(ls.key_down_stack).top),
                              key_down_stack |-> stack_pop(ls.key_down_stack).rest,
                              current_command |-> <<>>]
                        ELSE [st |-> st2,
                              key_down_stack |-> ls.key_down_stack,
                              current_command |-> <<>>]
    ELSE [ls EXCEPT !.current_command = Append(@, c)]

ComboChar_strict(ls, c) ==
    IF c \in {" ", "(", ")"}
    THEN LET joined == join(ls.current_command)
             isUnicode == joined \in DOMAIN KEYNAME_TO_UNICODE
             st1 == IF isUnicode
                    THEN CallUnicode(ls.st, joined, KEYNAME_TO_UNICODE[joined])
                    ELSE ls.st
             keystring == IF isUnicode THEN "" ELSE joined
         IN  CASE c = " " ->
                    [st |-> IF keystring # "" THEN CallPress(st1, keystring) ELSE st1,
                     key_down_stack |-> ls.key_down_stack,
                     current_command |-> <<>>]
               [] c = "(" ->
                    [st |-> IF keystring # "" THEN CallDown(st1, keystring) ELSE st1,
                     key_down_stack |-> Append(ls.key_down_stack, keystring),
                     current_command |-> <<>>]
               [] c = ")" ->
                    IF ls.key_down_stack # <<>>
                    THEN LET st2 == IF keystring # "" THEN CallPress(st1, keystring)
                                    ELSE st1
                         IN  [st |-> CallUp(st2, stack_pop(ls.key_down_stack).top),
                              key_down_stack |-> stack_pop(ls.key_down_stack).rest,
                              current_command |-> <<>>]
                    ELSE [st |-> st1,
                          key_down_stack |-> ls.key_down_stack,
                          current_command |-> <<>>]
    ELSE [ls EXCEPT !.current_command = Append(@, c)]

\* The body of send_key_combination's loop for one character c; ls holds
\* the locals key_down_stack and current_command beside st.
ComboChar(ls, c) ==
    IF c \in {" ", "(", ")"}
    THEN LET joined == join(ls.current_command)
             isUnicode == joined \in DOMAIN KEYNAME_TO_UNICODE
             st1 == IF isUnicode
                    THEN CallUnicode(ls.st, joined, KEYNAME_TO_UNICODE[joined])
                    ELSE ls.st
             keystring == IF isUnicode THEN "" ELSE joined
         IN  CASE c = " " ->
                    [st |-> IF keystring # "" THEN CallPress(st1, keystring) ELSE st1,
                     key_down_stack |-> ls.key_down_stack,
                     current_command |-> <<>>]
               [] c = "(" ->
                    [st |-> IF keystring # "" THEN CallDown(st1, keystring) ELSE st1,
                     key_down_stack |-> Append(ls.key_down_stack, keystring),
                     current_command |-> <<>>]
               [] c = ")" ->
                    LET st2 == IF keystring # "" THEN CallPress(st1, keystring) ELSE st1
                    IN  IF ls.key_down_stack # <<>>
                        THEN [st |-> CallUp(st2, stack_pop(ls.key_down_stack).top),
                              key_down_stack |-> stack_pop(ls.key_down_stack).rest,
                              current_command |-> <<>>]
                        ELSE [st |-> st2,
                              key_down_stack |-> ls.key_down_stack,
                              current_command |-> <<>>]
    ELSE [ls EXCEPT !.current_command = Append(@, c)]

RECURSIVE ComboChars(_, _)
ComboChars(ls, cs) ==
    IF cs = <<>> THEN ls ELSE ComboChars(ComboChar(ls, Head(cs)), Tail(cs))

ComboFinal_falls_through(st, keystring) ==
    IF keystring \in DOMAIN KEYNAME_TO_UNICODE
    THEN CallPress(CallUnicode(st, keystring, KEYNAME_TO_UNICODE[keystring]), keystring)
    ELSE CallPress(st, keystring)

\* "Record final command key": the token left when the string ends.
ComboFinal(st, keystring) ==
    IF keystring \in DOMAIN KEYNAME_TO_UNICODE
    THEN CallUnicode(st, keystring, KEYNAME_TO_UNICODE[keystring])
    ELSE CallPress(st, keystring)

ReleaseAll_nothing(st, key_down_stack) == st

\* "Release all keys": for keystring in key_down_stack, in list order.
RECURSIVE ReleaseAll(_, _)
ReleaseAll(st, key_down_stack) ==
    IF key_down_stack = <<>> THEN st
    ELSE LET keystring == Head(key_down_stack)
         IN  ReleaseAll(IF keystring # "" THEN CallUp(st, keystring) ELSE st,
                        Tail(key_down_stack))

send_key_combination(st, combo_string) ==
    LET ls == ComboChars([st |-> st, key_down_stack |-> <<>>,
                          current_command |-> <<>>], combo_string)
    IN  ReleaseAll(ComboFinal(ls.st, join(ls.current_command)), ls.key_down_stack)

-----------------------------------------------------------------------------
(* The application and its emulation calls.                                *)

Call(name, arg, n) == [call |-> name, arg |-> arg, n |-> n]

NoCall == Call("none", <<>>, 0)

\* Characters of combination strings and of typed text.
ComboAlphabet == {"A", "E", " ", "(", ")"}
ShortComboAlphabet == {"A", "é", "("}
TextAlphabet == {"A", "é", " "}

\* The calls of the emulation specification: short arguments, several calls.
EmuCalls ==
    {Call("send_key_combination", c, 0) : c \in SeqsUpTo(ShortComboAlphabet, MaxArgLen)}
    \cup {Call("send_string", t, 0) : t \in SeqsUpTo(TextAlphabet, MaxArgLen)}
    \cup {Call("send_backspaces", <<>>, n) : n \in 0..MaxBackspaces}

\* The calls of the parser specification: one long combination string.
ComboCalls ==
    {Call("send_key_combination", c, 0) : c \in SeqsUpTo(ComboAlphabet, MaxComboLen)}

\* The pieces combination strings are written with: a key name, a name of
\* the Unicode table, and the parentheses.
ComboPieces == {<<"A">>, <<"A", "E">>, <<"(">>, <<")">>}

RECURSIVE Concat(_)
Concat(ss) == IF ss = <<>> THEN <<>> ELSE Head(ss) \o Concat(Tail(ss))

\* The calls of the grouping specification: one combination string of a
\* few pieces.
PieceCalls ==
    {Call("send_key_combination", Concat(ps), 0) : ps \in SeqsUpTo(ComboPieces, MaxPieces)}

\* The calls of the single-call specification: any one call, long strings.
SingleCalls ==
    ComboCalls
    \cup {Call("send_string", t, 0) : t \in SeqsUpTo(TextAlphabet, MaxComboLen)}
    \cup {Call("send_backspaces", <<>>, n) : n \in 0..MaxBackspaces}

\* The calls a consumer callback makes while a capture session runs (the
\* module's own test echoes from key_up).
SessionCalls ==
    {Call("send_backspaces", <<>>, 1), Call("send_key_combination", <<"A">>, 0)}

Emulate(c, st) ==
    CASE c.call = "send_string" -> send_string(st, c.arg)
      [] c.call = "send_backspaces" -> send_backspaces(st, c.n)
      [] c.call = "send_key_combination" -> send_key_combination(st, c.arg)

\* The inputs SendInput accepted, as the OS queues them.
RECURSIVE Injected(_)
Injected(s) ==
    IF s = <<>> THEN <<>>
    ELSE (IF Head(s).result = 1 THEN <<Head(s).input.ki>> ELSE <<>>) \o Injected(Tail(s))

\* One emulation call c and its effect on the module and on the OS, whose
\* queue of injected inputs was queue before the call.
Apply(c, queue) ==
    LET st == Emulate(c, NewSt(KEYNAME_TO_KEYCODE, blocked))
    IN  /\ KEYNAME_TO_KEYCODE' = st.tbl
        /\ call' = c
        /\ ops' = st.ops
        /\ sent' = st.sent
        /\ raised' = st.raised
        /\ pending' = IF hooked THEN queue \o Injected(st.sent) ELSE queue

\* The application makes the next call of its script.
SendString ==
    /\ script # <<>>
    /\ Head(script).call = "send_string"
    /\ Apply(Head(script), pending)
    /\ script' = Tail(script)
    /\ UNCHANGED <<captureVars, blocked>>

SendBackspaces ==
    /\ script # <<>>
    /\ Head(script).call = "send_backspaces"
    /\ Apply(Head(script), pending)
    /\ script' = Tail(script)
    /\ UNCHANGED <<captureVars, blocked>>

SendKeyCombination ==
    /\ script # <<>>
    /\ Head(script).call = "send_key_combination"
    /\ Apply(Head(script), pending)
    /\ script' = Tail(script)
    /\ UNCHANGED <<captureVars, blocked>>

-----------------------------------------------------------------------------
(* KeyboardCapture.                                                        *)

\* The keys of the keyboard: pyHook's event.Key and event.ScanCode.
Keys ==
    {[Key |-> "A", ScanCode |-> 30], [Key |-> "Escape", ScanCode |-> 1],
     [Key |-> "Lcontrol", ScanCode |-> 29], [Key |-> "Rcontrol", ScanCode |-> 29],
     [Key |-> "Lshift", ScanCode |-> 42], [Key |-> "Lmenu", ScanCode |-> 56]}

\* event.Key of an injected input, from its virtual-key code.
VkKey(wVk) ==
    CASE wVk = 161 -> "Rshift"
      [] wVk = 8 -> "Back"
      [] wVk = 32 -> "Space"
      [] wVk = 65 -> "A"
      [] wVk = 0 -> "Packet"
      [] OTHER -> "Other"

Event(key, scanCode, injected) == [Key |-> key, ScanCode |-> scanCode, Injected |-> injected]

\* ascii = KEY_TO_ASCII.get(event.ScanCode, None)
ascii_of(event) ==
    IF event.ScanCode \in DOMAIN KEY_TO_ASCII THEN KEY_TO_ASCII[event.ScanCode] ELSE None

set_flag_inverted(flag, keys, func_name, event) ==
    IF ~event.Injected /\ event.Key \in keys THEN func_name = "key_up" ELSE flag

\* if event.Key in keys: self.flag = func_name == 'key_down' (not injected)
set_flag(flag, keys, func_name, event) ==
    IF ~event.Injected /\ event.Key \in keys THEN func_name = "key_down" ELSE flag

is_forwarded_shifted(event, ascii, c, s, a) ==
    ~event.Injected /\ ascii # None /\ ~c /\ ~a

is_forwarded_injected(event, ascii, c, s, a) ==
    ascii # None /\ ~c /\ ~a /\ ~s

\* if not event.Injected: ... if ascii and not ctrl and not alt and not shift
is_forwarded(event, ascii, c, s, a) ==
    ~event.Injected /\ ascii # None /\ ~c /\ ~a /\ ~s

hook_return_always(forward, suppressed) == ~suppressed

\* return not self.is_keyboard_suppressed() after the callback, else True
hook_return(forward, suppressed) == IF forward THEN ~suppressed ELSE TRUE

\* on_key_event up to the callback: the flags it sets, the character it
\* looked up and whether it goes on to call the consumer.
on_key_event(func_name, event) ==
    LET ascii == ascii_of(event)
        c == set_flag(ctrl, CONTROL_KEYS, func_name, event)
        s == set_flag(shift, SHIFT_KEYS, func_name, event)
        a == set_flag(alt, ALT_KEYS, func_name, event)
    IN  [ctrl |-> c, shift |-> s, alt |-> a, ascii |-> ascii,
         forward |-> is_forwarded(event, ascii, c, s, a)]

\* What a consumer callback may do before it returns.
CallbackMoves ==
    {Call("return", <<>>, 0), Call("suppress_keyboard", <<>>, 0)}
    \cup SessionCalls

\* The hook calls hm.KeyDown / hm.KeyUp on the capture thread as it pumps
\* messages: on_key_event runs to its return, or to the exception the
\* consumer callback raises, which nothing in it catches (raised; ret is
\* then no value of the handler's).  cb is what the consumer callback does
\* if it is called, queue the injected inputs the OS still holds.
Handle(func_name, event, cb, queue) ==
    LET r == on_key_event(func_name, event)
        suppressed == IF r.forward /\ cb.call = "suppress_keyboard"
                      THEN cb.n = 1 ELSE _suppress_keyboard
        propagates == r.forward /\ cb.call = "raise"
        result == IF propagates THEN FALSE ELSE hook_return(r.forward, suppressed)
    IN  /\ hooked
        /\ thread = "pump"
        /\ Len(events) < MaxEvents
        /\ ctrl' = r.ctrl
        /\ shift' = r.shift
        /\ alt' = r.alt
        /\ _suppress_keyboard' = suppressed
        /\ callbacks' = IF r.forward
                        THEN Append(callbacks, [func_name |-> func_name,
                                                keystring |-> r.ascii])
                        ELSE callbacks
        /\ events' = Append(events,
                        [func_name |-> func_name, event |-> event,
                         flagged |-> ctrl \/ shift \/ alt,
                         called |-> Len(callbacks') > Len(callbacks),
                         raised |-> propagates,
                         ret |-> result])
        /\ IF r.forward /\ cb \in SessionCalls
           THEN Apply(cb, queue)
           ELSE /\ pending' = queue
                /\ UNCHANGED <<KEYNAME_TO_KEYCODE, call, ops, sent, raised>>
        /\ UNCHANGED <<hooked, sessionVars, blocked, script>>

\* A key of the keyboard goes down (or repeats).
KeyDown ==
    \E k \in Keys, cb \in CallbackMoves :
        /\ Handle("key_down", Event(k.Key, k.ScanCode, FALSE), cb, pending)
        /\ down' = down \cup {k}

\* A key that is down goes up.
KeyUp ==
    \E k \in down, cb \in CallbackMoves :
        /\ Handle("key_up", Event(k.Key, k.ScanCode, FALSE), cb, pending)
        /\ down' = down \ {k}

\* The OS hands the hook the oldest injected input.
InjectedEvent ==
    /\ pending # <<>>
    /\ LET ki == Head(pending)
           func_name == IF ki.dwFlags = KEYEVENTF_KEYUP THEN "key_up" ELSE "key_down"
       IN  \E cb \in CallbackMoves :
              Handle(func_name, Event(VkKey(ki.wVk), ki.wScan, TRUE), cb, Tail(pending))
    /\ UNCHANGED down

\* The consumer callback of a real key event raises.
CallbackRaises ==
    \E func_name \in {"key_down", "key_up"}, k \in Keys :
        /\ func_name = "key_up" => k \in down
        /\ on_key_event(func_name, Event(k.Key, k.ScanCode, FALSE)).forward
        /\ Handle(func_name, Event(k.Key, k.ScanCode, FALSE),
                  Call("raise", <<>>, 0), pending)
        /\ down' = IF func_name = "key_down" THEN down \cup {k} ELSE down \ {k}

is_alive_always(t) == TRUE

\* Thread.is_alive(): started and not yet stopped.
is_alive(t) == t \in {"run", "pump"}

\* The capture thread owns a message queue from its first call of a User
\* function on, which is HookKeyboard's.
has_queue(t) == t = "pump"

\* Thread.start(), called by the application: the capture thread is alive
\* and about to execute run().
start ==
    /\ thread = "initial"
    /\ thread' = "run"
    /\ UNCHANGED <<shift, ctrl, alt, _suppress_keyboard, hooked, quit, canceller,
                   cancels, down, pending, blocked, events, callbacks,
                   KEYNAME_TO_KEYCODE, script, call, ops, sent, raised>>

\* KeyboardCapture.run: the capture thread installs the hook and enters
\* PumpMessages.
run ==
    /\ thread = "run"
    /\ hooked' = TRUE
    /\ thread' = "pump"
    /\ UNCHANGED <<shift, ctrl, alt, _suppress_keyboard, quit, canceller, cancels,
                   down, pending, blocked, events, callbacks, KEYNAME_TO_KEYCODE,
                   script, call, ops, sent, raised>>

\* PumpMessages takes WM_QUIT from the queue and returns; run() returns
\* and the capture thread ends.
PumpMessages ==
    /\ thread = "pump"
    /\ quit
    /\ thread' = "stopped"
    /\ quit' = FALSE
    /\ UNCHANGED <<shift, ctrl, alt, _suppress_keyboard, hooked, canceller, cancels,
                   down, pending, blocked, events, callbacks, KEYNAME_TO_KEYCODE,
                   script, call, ops, sent, raised>>

\* KeyboardCapture.cancel, called by the application: if self.is_alive().
cancel ==
    /\ canceller = "idle"
    /\ Len(cancels) < MaxCancels
    /\ IF is_alive(thread)
       THEN canceller' = "UnhookKeyboard" /\ UNCHANGED cancels
       ELSE canceller' = "idle" /\ cancels' = Append(cancels, "nothing")
    /\ UNCHANGED <<shift, ctrl, alt, _suppress_keyboard, hooked, thread, quit, down,
                   pending, blocked, events, callbacks, KEYNAME_TO_KEYCODE, script,
                   call, ops, sent, raised>>

\* cancel: self.hm.UnhookKeyboard() removes the hook if one is installed.
UnhookKeyboard ==
    /\ canceller = "UnhookKeyboard"
    /\ hooked' = FALSE
    /\ canceller' = "PostThreadMessage"
    /\ UNCHANGED <<shift, ctrl, alt, _suppress_keyboard, thread, quit, cancels, down,
                   pending, blocked, events, callbacks, KEYNAME_TO_KEYCODE, script,
                   call, ops, sent, raised>>

\* cancel: win32api.PostThreadMessage(self.ident, WM_QUIT) queues the
\* message and cancel returns, or fails, the thread having no message
\* queue, and cancel raises.
PostThreadMessage ==
    /\ canceller = "PostThreadMessage"
    /\ canceller' = "idle"
    /\ IF has_queue(thread)
       THEN quit' = TRUE /\ cancels' = Append(cancels, "returned")
       ELSE quit' = quit /\ cancels' = Append(cancels, "raised")
    /\ UNCHANGED <<shift, ctrl, alt, _suppress_keyboard, hooked, thread, down,
                   pending, blocked, events, callbacks, KEYNAME_TO_KEYCODE, script,
                   call, ops, sent, raised>>

\* KeyboardCapture.suppress_keyboard, called by the application.
suppress_keyboard ==
    \E suppress \in BOOLEAN :
        /\ _suppress_keyboard' = suppress
        /\ UNCHANGED <<shift, ctrl, alt, hooked, sessionVars, down, pending, blocked,
                       events, callbacks, KEYNAME_TO_KEYCODE, script, call, ops, sent,
                       raised>>

-----------------------------------------------------------------------------
(* Specifications.                                                         *)

\* The module is loaded and KeyboardCapture.__init__ has run; the
\* application will make the calls of one of scripts, and the OS refuses
\* injected input or not as refusals says.
Start(scripts, refusals) ==
    /\ shift = FALSE
    /\ ctrl = FALSE
    /\ alt = FALSE
    /\ _suppress_keyboard = TRUE
    /\ hooked = FALSE
    /\ thread = "initial"
    /\ quit = FALSE
    /\ canceller = "idle"
    /\ cancels = <<>>
    /\ down = {}
    /\ pending = <<>>
    /\ blocked \in refusals
    /\ events = <<>>
    /\ callbacks = <<>>
    /\ KEYNAME_TO_KEYCODE = KeycodeTable
    /\ script \in scripts
    /\ call = NoCall
    /\ ops = <<>>
    /\ sent = <<>>
    /\ raised = FALSE

\* A capture session; the consumer callbacks do the emulation.
Init == Start({<<>>}, {FALSE})

Next ==
    \/ start
    \/ run
    \/ KeyDown
    \/ KeyUp
    \/ InjectedEvent
    \/ suppress_keyboard

Spec == Init /\ [][Next]_vars

\* A capture session with a consumer whose callbacks may raise.
NextFaulty == Next \/ CallbackRaises

SpecFaulty == Init /\ [][NextFaulty]_vars

\* The life of a capture session: started, cancelled any number of times,
\* with few key events.  The capture thread, once started, is scheduled,
\* and so is the thread that is inside cancel.
KeyEvent == KeyDown \/ KeyUp \/ InjectedEvent

NextSession ==
    \/ start
    \/ run
    \/ PumpMessages
    \/ cancel
    \/ UnhookKeyboard
    \/ PostThreadMessage
    \/ (Len(events) < MaxSessionEvents /\ KeyEvent)

SpecSession ==
    /\ Init /\ [][NextSession]_vars
    /\ WF_vars(run) /\ WF_vars(PumpMessages)
    /\ WF_vars(UnhookKeyboard) /\ WF_vars(PostThreadMessage)

\* The emulation engine alone: scripts of short calls.
InitEmu == Start(SeqsUpTo(EmuCalls, MaxCalls), BOOLEAN)

NextEmu ==
    \/ SendString
    \/ SendBackspaces
    \/ SendKeyCombination

SpecEmu == InitEmu /\ [][NextEmu]_vars

\* One emulation call of any kind.
InitCall == Start({<<c>> : c \in SingleCalls}, BOOLEAN)

SpecCall == InitCall /\ [][NextEmu]_vars

\* The combination parser alone: one call, any string over ComboAlphabet.
InitCombo == Start({<<c>> : c \in ComboCalls}, BOOLEAN)

NextCombo == SendKeyCombination

SpecCombo == InitCombo /\ [][NextCombo]_vars

\* The combination parser on strings made of whole key names.
InitPieces == Start({<<c>> : c \in PieceCalls}, {FALSE})

SpecPieces == InitPieces /\ [][NextCombo]_vars

-----------------------------------------------------------------------------
(* The capture hook.                                                       *)

\* The modifier classes the hook knows.
ModifierClasses == {CONTROL_KEYS, SHIFT_KEYS, ALT_KEYS}

Printable(e) == e.event.ScanCode \in DOMAIN KEY_TO_ASCII

\* A raw event the consumer is to hear of: real, printable, no flag set
\* when it arrived.
Qualifies(e) == ~e.event.Injected /\ Printable(e) /\ ~e.flagged

RECURSIVE Image(_)
Image(es) ==
    IF es = <<>> THEN <<>>
    ELSE (IF Qualifies(Head(es))
          THEN <<[func_name |-> Head(es).func_name,
                  keystring |-> KEY_TO_ASCII[Head(es).event.ScanCode]]>>
          ELSE <<>>) \o Image(Tail(es))

\* C1: the consumer callbacks made so far are exactly, and in order, the
\* raw events that are not injected, have a printable scan code and came
\* while no modifier flag was set: key_down for a key-down, key_up for a
\* key-up, each with that key's character.
C1_CallbacksAreImage == callbacks = Image(events)

C1_Witness ==
    /\ callbacks = <<[func_name |-> "key_down", keystring |-> "a"],
                     [func_name |-> "key_up", keystring |-> "a"]>>
    /\ Len(events) > 2
    /\ \E i \in 1..Len(events) : Printable(events[i]) /\ events[i].flagged

\* Modifier class M is held before event j: a real key-down of one of its
\* keys came earlier, and no real key-up of one since.
HeldBefore(M, j) ==
    \E i \in 1..(j - 1) :
        /\ ~events[i].event.Injected
        /\ events[i].event.Key \in M
        /\ events[i].func_name = "key_down"
        /\ \A k \in (i + 1)..(j - 1) :
              ~(/\ ~events[k].event.Injected
                /\ events[k].event.Key \in M
                /\ events[k].func_name = "key_up")

\* C2: between a real key-down of Control, Shift or Alt and the next real
\* key-up of that modifier, no printable-key event reaches the consumer,
\* and the hook returns True for each of them.
C2_HeldModifierBlocks ==
    \A j \in 1..Len(events) :
        (Printable(events[j]) /\ \E M \in ModifierClasses : HeldBefore(M, j))
            => ~events[j].called /\ events[j].ret = TRUE

C2_Witness ==
    \E j \in 1..Len(events) :
        /\ Printable(events[j]) /\ ~events[j].event.Injected
        /\ HeldBefore(CONTROL_KEYS, j)
        /\ ~events[j].called
        /\ \E k \in (j + 1)..Len(events) : events[k].called

\* C3: an injected raw event never reaches the consumer, whatever the
\* flags and the key; the inputs a callback injects come back to the hook
\* and cause no callback.
C3_InjectedNotForwarded ==
    \A j \in 1..Len(events) :
        events[j].event.Injected => ~events[j].called /\ events[j].ret = TRUE

C3_Witness ==
    /\ call.call = "send_backspaces"
    /\ \E j \in 1..Len(events) :
          /\ events[j].event.Injected
          /\ Printable(events[j])
          /\ ~events[j].flagged
          /\ \E i \in 1..(j - 1) : events[i].called

\* C4: the hook returns False exactly for a real, printable event that
\* came with no flag set while the suppression flag is set as the hook
\* returns; a forwarded event returns the negated flag, any other True.
C4_ReturnValue ==
    [][events' # events =>
        LET e == Last(events')
        IN  /\ e.ret = ~(Qualifies(e) /\ _suppress_keyboard')
            /\ e.called => e.ret = ~_suppress_keyboard'
            /\ ~e.called => e.ret = TRUE]_vars

C4_Witness ==
    /\ \E j \in 1..Len(events) : events[j].called /\ events[j].ret = FALSE
    /\ \E j \in 1..Len(events) : events[j].called /\ events[j].ret = TRUE
    /\ \E j \in 1..Len(events) :
          ~events[j].called /\ ~events[j].event.Injected /\ ~events[j].flagged

-----------------------------------------------------------------------------
(* The combination parser.  A combination string is read here by position: *)
(* the token before a position, and the '(' a ')' closes, found by         *)
(* counting parentheses.                                                   *)

IsDelimiter(c) == c \in {" ", "(", ")"}

RECURSIVE TokenStart(_, _)
TokenStart(cs, p) ==
    IF p = 1 \/ IsDelimiter(cs[p - 1]) THEN p ELSE TokenStart(cs, p - 1)

\* The key name that ends just before position p ("" if none does).
TokenBefore(cs, p) == join(SubSeq(cs, TokenStart(cs, p), p - 1))

Count(cs, ch, lo, hi) == Cardinality({i \in lo..hi : cs[i] = ch})

\* The positions of '(' that a ')' at position p could close.
Openers(cs, p) ==
    {q \in 1..(p - 1) :
        cs[q] = "(" /\ Count(cs, "(", q + 1, p - 1) = Count(cs, ")", q + 1, p - 1)}

\* The '(' the ')' at p closes: the nearest one; 0 if there is none.
Opener(cs, p) ==
    IF Openers(cs, p) = {} THEN 0
    ELSE CHOOSE q \in Openers(cs, p) : \A r \in Openers(cs, p) : r <= q

Closed(cs, q) == \E p \in (q + 1)..Len(cs) : cs[p] = ")" /\ Opener(cs, p) = q

Holdable(name) == name # "" /\ name \notin DOMAIN KEYNAME_TO_UNICODE

Hold(key) == [op |-> "_key_down", key |-> key, code |-> 0]
Release(key) == [op |-> "_key_up", key |-> key, code |-> 0]
PressAndRelease(key) == [op |-> "_key_press", key |-> key, code |-> 0]
InjectUnicode(key) == [op |-> "_key_unicode", key |-> key, code |-> KEYNAME_TO_UNICODE[key]]

\* Parentheses balanced, each '(' right after a key that can be held.
WellFormed(cs) ==
    /\ \A p \in 1..Len(cs) : cs[p] = ")" => Opener(cs, p) # 0
    /\ \A q \in 1..Len(cs) :
          cs[q] = "(" => Closed(cs, q) /\ Holdable(TokenBefore(cs, q))

\* What position p of a well-formed string asks for; p = Len(cs) + 1 is
\* the end of the string.
OpsAt(cs, p) ==
    IF p <= Len(cs) /\ ~IsDelimiter(cs[p]) THEN <<>>
    ELSE LET token == TokenBefore(cs, p)
             d == IF p <= Len(cs) THEN cs[p] ELSE " "
         IN  (IF token = "" THEN <<>>
              ELSE IF token \in DOMAIN KEYNAME_TO_UNICODE THEN <<InjectUnicode(token)>>
              ELSE IF d = "(" THEN <<Hold(token)>>
              ELSE <<PressAndRelease(token)>>)
             \o (IF d = ")" /\ p <= Len(cs)
                 THEN <<Release(TokenBefore(cs, Opener(cs, p)))>> ELSE <<>>)

RECURSIVE OpsFrom(_, _)
OpsFrom(cs, p) == IF p > Len(cs) + 1 THEN <<>> ELSE OpsAt(cs, p) \o OpsFrom(cs, p + 1)

Named(op) == op.key # ""

\* C5: for a well-formed combination string the key operations are, in
\* order, Hold(K) at each "K(", the operations of the enclosed tokens, and
\* Release(K) at the ')' that closes it, so nested holds are released
\* last-in first-out.
C5_WellFormedCombination ==
    (call.call = "send_key_combination" /\ WellFormed(call.arg))
        => SelectSeq(ops, Named) = OpsFrom(call.arg, 1)

C5_Witness ==
    /\ call.arg = <<"A", "(", "E", "(", ")", ")">>
    /\ SelectSeq(ops, Named) = <<Hold("A"), Hold("E"), Release("E"), Release("A")>>

\* The '(' positions of cs from q on that no ')' closes.
RECURSIVE OpenFrom(_, _)
OpenFrom(cs, q) ==
    IF q > Len(cs) THEN <<>>
    ELSE (IF cs[q] = "(" /\ ~Closed(cs, q) /\ Holdable(TokenBefore(cs, q))
          THEN <<TokenBefore(cs, q)>> ELSE <<>>) \o OpenFrom(cs, q + 1)

\* C6: the keys that unmatched '(' leave held are released after the scan,
\* the most recently opened first.
C6_UnmatchedReleasedNewestFirst ==
    call.call = "send_key_combination" =>
        LET held == OpenFrom(call.arg, 1)
            n == Len(held)
        IN  /\ n <= Len(ops)
            /\ SubSeq(ops, Len(ops) - n + 1, Len(ops)) = [i \in 1..n |-> Release(held[n + 1 - i])]

\* C7: when SendInput reports that it injected nothing, the call raises
\* and sends nothing after the input that failed.
C7_InjectionFailureSurfaced ==
    \A i \in 1..Len(sent) : sent[i].result = 0 => raised /\ i = Len(sent)

\* C8: the key tables are as loaded, whatever emulation calls were made.
C8_TablesReadOnly == KEYNAME_TO_KEYCODE = KeycodeTable

\* What send_string owes character c under the configured tables.
TextOp(c) ==
    LET name == IF c \in DOMAIN LITERALS THEN LITERALS[c] ELSE c
    IN  IF name \in DOMAIN KeycodeTable THEN PressAndRelease(name)
        ELSE [op |-> "_key_unicode", key |-> c, code |-> ord[c]]

\* C9: send_string emits one operation per character, in order: a press
\* and release of the key the configured table has for it (after the
\* literal's name is substituted), else a Unicode injection.
C9_SendStringPerCharacter ==
    call.call = "send_string" => ops = [i \in 1..Len(call.arg) |-> TextOp(call.arg[i])]

\* The tokens of cs from position p on: one before each delimiter and one
\* at the end.
RECURSIVE TokensFrom(_, _)
TokensFrom(cs, p) ==
    IF p > Len(cs) + 1 THEN <<>>
    ELSE (IF p = Len(cs) + 1 \/ IsDelimiter(cs[p]) THEN <<TokenBefore(cs, p)>> ELSE <<>>)
         \o TokensFrom(cs, p + 1)

IsUnicodeName(name) == name \in DOMAIN KEYNAME_TO_UNICODE
IsUnicodeOp(op) == op.op = "_key_unicode"
IsUnicodeInput(s) == s.input.ki.dwFlags = KEYEVENTF_UNICODE

\* C10: each token of a combination string that names a Unicode code point
\* is one Unicode injection of that code point, wherever it stands, and no
\* key is pressed, held or released under its name.
C10_UnicodeTokens ==
    call.call = "send_key_combination" =>
        LET names == SelectSeq(TokensFrom(call.arg, 1), IsUnicodeName)
            injected == SelectSeq(sent, IsUnicodeInput)
        IN  /\ SelectSeq(ops, IsUnicodeOp) = [i \in 1..Len(names) |-> InjectUnicode(names[i])]
            /\ \A i \in 1..Len(ops) : ~IsUnicodeOp(ops[i]) => ~IsUnicodeName(ops[i].key)
            /\ [i \in 1..Len(injected) |-> injected[i].input.ki]
                 = [i \in 1..Len(names) |->
                      [wVk |-> 0, wScan |-> KEYNAME_TO_UNICODE[names[i]],
                       dwFlags |-> KEYEVENTF_UNICODE]]

C10_Witness ==
    /\ call.arg = <<"A", "E", "(", "A", "E", ")">>
    /\ Len(SelectSeq(ops, IsUnicodeOp)) = 2
    /\ \A i \in 1..Len(sent) : IsUnicodeInput(sent[i])

\* Every '(' of cs follows a key that can be held and is closed; a ')' may
\* have no '(' to close.
OpenersWellFormed(cs) ==
    \A q \in 1..Len(cs) : cs[q] = "(" => Closed(cs, q) /\ Holdable(TokenBefore(cs, q))

Unmatched(cs, p) == p <= Len(cs) /\ cs[p] = ")" /\ Opener(cs, p) = 0

\* What position p asks for when a ')' that closes nothing is tolerated:
\* only the token before it.
TolerantOpsAt(cs, p) ==
    IF Unmatched(cs, p)
    THEN LET token == TokenBefore(cs, p)
         IN  IF token = "" THEN <<>>
             ELSE IF token \in DOMAIN KEYNAME_TO_UNICODE THEN <<InjectUnicode(token)>>
             ELSE <<PressAndRelease(token)>>
    ELSE OpsAt(cs, p)

RECURSIVE TolerantOpsFrom(_, _)
TolerantOpsFrom(cs, p) ==
    IF p > Len(cs) + 1 THEN <<>>
    ELSE TolerantOpsAt(cs, p) \o TolerantOpsFrom(cs, p + 1)

\* C11: a ')' met while no key is held releases nothing and raises no
\* error; the token before it is pressed and released and the rest of the
\* string is parsed as if the ')' were a separator.
C11_UnmatchedCloseTolerated ==
    (/\ call.call = "send_key_combination"
     /\ OpenersWellFormed(call.arg)
     /\ \E p \in 1..Len(call.arg) : Unmatched(call.arg, p))
        => /\ ~raised
           /\ SelectSeq(ops, Named) = TolerantOpsFrom(call.arg, 1)

C11_Witness ==
    /\ call.arg = <<"A", ")", "E", "(", "A", ")">>
    /\ ~raised
    /\ SelectSeq(ops, Named)
         = <<PressAndRelease("A"), Hold("E"), PressAndRelease("A"), Release("E")>>

-----------------------------------------------------------------------------
(* From key operations to the inputs injected.                             *)

\* The platform key codes the configured table has for a key name.
Codes(key) == IF key \in DOMAIN KeycodeTable THEN KeycodeTable[key] ELSE <<>>

KeyDownInput(code) == _Keyboard(code, 0)
KeyUpInput(code) == _Keyboard(code, KEYEVENTF_KEYUP)

Downs(key) == [i \in 1..Len(Codes(key)) |-> KeyDownInput(Codes(key)[i])]
Ups(key) ==
    [i \in 1..Len(Codes(key)) |-> KeyUpInput(Codes(key)[Len(Codes(key)) + 1 - i])]

\* The inputs one key operation owes.
Inputs(op) ==
    CASE op.op = "_key_down" -> Downs(op.key)
      [] op.op = "_key_up" -> Ups(op.key)
      [] op.op = "_key_press" -> Downs(op.key) \o Ups(op.key)
      [] op.op = "_key_unicode" -> <<_Keyboard(op.code, KEYEVENTF_UNICODE)>>

RECURSIVE InputsOf(_)
InputsOf(os) == IF os = <<>> THEN <<>> ELSE Inputs(Head(os)) \o InputsOf(Tail(os))

SentInputs == [i \in 1..Len(sent) |-> sent[i].input]

\* C12: the inputs handed to SendInput are those of the key operations, in
\* the order of the operations: for a key with several codes a press and
\* release is one key-down per code in table order and then one key-up per
\* code in the reverse order, a hold only the key-downs and a release only
\* the key-ups.
C12_MultiCodeOrder ==
    call.call = "send_key_combination" => SentInputs = InputsOf(ops)

C12_Witness ==
    /\ call.arg = <<"A", "(", "E", ")">>
    /\ SelectSeq(ops, Named) = <<Hold("A"), PressAndRelease("E"), Release("A")>>
    /\ SentInputs = <<KeyDownInput(161), KeyDownInput(65),
                      KeyDownInput(161), KeyDownInput(69),
                      KeyUpInput(69), KeyUpInput(161),
                      KeyUpInput(65), KeyUpInput(161)>>

-----------------------------------------------------------------------------
(* The life of the capture session.                                        *)

\* A cancel call that found the session alive has ended.
Cancelled == \E i \in 1..Len(cancels) : cancels[i] # "nothing"

\* C13: once a cancel of an active session has ended, no raw event is
\* handed to on_key_event (nor any consumer callback made) any more,
\* however the caller and the capture thread interleave.
C13_NoEventAfterCancel ==
    [][Cancelled => events' = events /\ callbacks' = callbacks]_vars

\* C14: a cancel call that finds the session alive leads to PumpMessages
\* returning and the capture thread ending.
C14_CancelTerminates == (canceller = "UnhookKeyboard") ~> (thread = "stopped")

\* C17: a cancel call made while the capture thread is not alive (not yet
\* started, or ended) removes no hook, posts nothing, raises nothing and
\* changes no capture state.
C17_CancelWithoutSession ==
    [][(/\ canceller = "idle"
        /\ thread \in {"initial", "stopped"}
        /\ (canceller' # canceller \/ cancels' # cancels))
         => /\ cancels' = Append(cancels, "nothing")
            /\ canceller' = "idle"
            /\ UNCHANGED <<shift, ctrl, alt, _suppress_keyboard, hooked, thread, quit,
                           down, pending, events, callbacks>>]_vars

C17_Witness ==
    /\ thread = "stopped"
    /\ cancels = <<"nothing", "returned", "nothing">>
    /\ events # <<>>

\* C15: an exception a consumer callback raises does not leave
\* on_key_event: the handler returns a value for every raw event.
C15_CallbackExceptionCaught ==
    \A j \in 1..Len(events) : ~events[j].raised

-----------------------------------------------------------------------------
(* The emulation calls, by the inputs they inject.                         *)

RECURSIVE Repeat(_, _)
Repeat(s, n) == IF n = 0 THEN <<>> ELSE s \o Repeat(s, n - 1)

\* The virtual-key code of BackSpace.
VK_BACK == KeycodeTable["BackSpace"][1]

\* C16: send_backspaces(n) is n press-and-release cycles of BackSpace, a
\* key-down and a key-up of its code each, and nothing else; none for 0.
C16_Backspaces ==
    call.call = "send_backspaces" =>
        /\ ops = [i \in 1..call.n |-> PressAndRelease("BackSpace")]
        /\ SentInputs = Repeat(<<KeyDownInput(VK_BACK), KeyUpInput(VK_BACK)>>, call.n)
        /\ Len(Injected(sent)) = IF blocked THEN 0 ELSE 2 * call.n

C16_Witness ==
    /\ call.call = "send_backspaces"
    /\ call.n = MaxBackspaces
    /\ ~blocked
    /\ Len(Injected(sent)) = 2 * MaxBackspaces
    /\ KEYNAME_TO_KEYCODE # KeycodeTable

\* Key-downs and key-ups of a key code among the first n injected inputs.
DownsOf(code, inj, n) ==
    Cardinality({i \in 1..n : inj[i].wVk = code /\ inj[i].dwFlags = 0})
UpsOf(code, inj, n) ==
    Cardinality({i \in 1..n : inj[i].wVk = code /\ inj[i].dwFlags = KEYEVENTF_KEYUP})

\* C18: a call whose inputs were all injected leaves every key code with
\* as many key-ups as key-downs, and at no point had it released a code
\* more often than pressed it.
C18_PressReleaseBalance ==
    (call # NoCall /\ ~blocked) =>
        LET inj == Injected(sent)
        IN  \A i \in 1..Len(inj) :
               /\ DownsOf(inj[i].wVk, inj, Len(inj)) = UpsOf(inj[i].wVk, inj, Len(inj))
               /\ \A n \in 1..Len(inj) :
                     UpsOf(inj[i].wVk, inj, n) <= DownsOf(inj[i].wVk, inj, n)

C18_Witness ==
    /\ call.arg = <<"A", "(", ")", ")", "E", "(">>
    /\ ~blocked
    /\ Len(Injected(sent)) = 8
    /\ DownsOf(161, Injected(sent), 8) = 2

-----------------------------------------------------------------------------
(* The modifier flags and the keyboard.                                    *)

Held(keys) == \E k \in down : k.Key \in keys

\* C19: each modifier flag is set exactly while one of the two keys of its
\* class is physically down.
C19_FlagsTrackKeys ==
    /\ ctrl = Held(CONTROL_KEYS)
    /\ shift = Held(SHIFT_KEYS)
    /\ alt = Held(ALT_KEYS)

RealPrintable(e) == ~e.event.Injected /\ Printable(e)

\* Event i is the key-down the key-up j follows: the last real key-down of
\* its key before it.
DownOf(i, j) ==
    /\ i < j
    /\ ~events[i].event.Injected
    /\ events[i].event.Key = events[j].event.Key
    /\ events[i].func_name = "key_down"
    /\ \A k \in (i + 1)..(j - 1) :
          ~(/\ ~events[k].event.Injected
            /\ events[k].event.Key = events[j].event.Key
            /\ events[k].func_name = "key_down")

\* C20: the key-up of a real printable key is forwarded, and swallowed,
\* exactly if the key-down it follows was.
C20_DownUpConsistent ==
    \A j \in 1..Len(events) :
        (RealPrintable(events[j]) /\ events[j].func_name = "key_up") =>
            \A i \in 1..Len(events) :
                DownOf(i, j) => /\ events[j].called = events[i].called
                                /\ events[j].ret = events[i].ret

-----------------------------------------------------------------------------
(* Groups opened without a key to hold.                                    *)

\* Every ')' closes a '(' and every '(' is closed.
Balanced(cs) ==
    /\ \A p \in 1..Len(cs) : cs[p] = ")" => Opener(cs, p) # 0
    /\ \A q \in 1..Len(cs) : cs[q] = "(" => Closed(cs, q)

\* A '(' at q that opens a group with no key to hold: after no key name,
\* or after a name of the Unicode table.
Keyless(cs, q) == cs[q] = "(" /\ ~Holdable(TokenBefore(cs, q))

\* What position p of a balanced string asks for when each ')' closes the
\* '(' at its own depth: the key held there is released, if there is one.
DepthOpsAt(cs, p) ==
    IF p <= Len(cs) /\ ~IsDelimiter(cs[p]) THEN <<>>
    ELSE LET token == TokenBefore(cs, p)
             d == IF p <= Len(cs) THEN cs[p] ELSE " "
         IN  (IF token = "" THEN <<>>
              ELSE IF token \in DOMAIN KEYNAME_TO_UNICODE THEN <<InjectUnicode(token)>>
              ELSE IF d = "(" THEN <<Hold(token)>>
              ELSE <<PressAndRelease(token)>>)
             \o (IF d = ")" /\ p <= Len(cs) /\ ~Keyless(cs, Opener(cs, p))
                 THEN <<Release(TokenBefore(cs, Opener(cs, p)))>> ELSE <<>>)

RECURSIVE DepthOpsFrom(_, _)
DepthOpsFrom(cs, p) ==
    IF p > Len(cs) + 1 THEN <<>> ELSE DepthOpsAt(cs, p) \o DepthOpsFrom(cs, p + 1)

\* C21: in a balanced string with a group opened after no key name or after
\* a Unicode name, the ')' of that group releases no key, and every held
\* key is released at the ')' that closes its own '(' and not before.
C21_DepthPreserved ==
    (/\ call.call = "send_key_combination"
     /\ Balanced(call.arg)
     /\ \E q \in 1..Len(call.arg) : Keyless(call.arg, q))
        => /\ SelectSeq(ops, Named) = DepthOpsFrom(call.arg, 1)
           /\ SentInputs = InputsOf(DepthOpsFrom(call.arg, 1))

C21_Witness ==
    /\ call.arg = <<"A", "(", "A", "E", "(", "A", ")", ")">>
    /\ SelectSeq(ops, Named)
         = <<Hold("A"), InjectUnicode("AE"), PressAndRelease("A"), Release("A")>>
    /\ Len(sent) = 9

====
